---- MODULE Spec2Model ----
(***************************************************************************)
(* A model of the ORM-backed controller layer of ksb-pyside-kit:           *)
(*   - the module-level SQLAlchemy session shared by every controller,     *)
(*   - BaseController (controllers/base_controller.py) over a mapped       *)
(*     model class,                                                        *)
(*   - RegistrationCodeController and AuthController built on it.          *)
(* A table is a set of rows; a row is a function from column names to      *)
(* values.  Python's None / SQL NULL in a nullable column is the empty     *)
(* sequence <<>>, a value x in such a column is <<x>>.  Keyword arguments  *)
(* (kwargs) are functions from key names to values.                        *)
(***************************************************************************)
EXTENDS Integers, Sequences, FiniteSets, TLC

VARIABLES
    store,      \* the session over the registration_codes table
    ustore,     \* the session over the users table
    now,        \* datetime.now() / func.now(), a logical clock
    last,       \* the last controller call: its arguments, pre-state and outcome
    pw,         \* the last _validate_password call: its input and result
    calls,      \* the controller calls running on two threads, step by step
    form,       \* a form: its fields, its validators and the signals it emitted
    worker      \* a ProgressWorker, the function it runs and the signals it emitted

vars == <<store, ustore, now, last, pw, calls, form, worker>>

(***************************************************************************)
(* Bounds of the model.                                                    *)
(***************************************************************************)
MaxTime == 2    \* the clock runs over 0..MaxTime
MaxRows == 2    \* create is not called on a table that holds MaxRows rows,
                \* nor once the next autoincrement id would pass MaxRows + 1

None == <<>>
Some(x) == <<x>>

Max(S) == CHOOSE x \in S : \A y \in S : y <= x

(***************************************************************************)
(* The mapped classes.  Only the columns read or written by the modelled   *)
(* operations are kept; created_at, date_joined, first_name, last_name and *)
(* secret_question are written once at insert and never read.              *)
(*   unique   : columns declared unique=True                               *)
(*   required : nullable=False columns without a default                   *)
(*   defaults : column defaults applied by INSERT                          *)
(* A nullable column without a default (last_login) is NULL when no value  *)
(* is given.                                                               *)
(***************************************************************************)
RegistrationCodeModel ==
    [ columns  |-> {"id", "code", "user_type", "is_used", "expiration_date",
                    "updated_at"},
      unique   |-> {"code"},
      required |-> {"code", "expiration_date"},
      defaults |-> [user_type |-> "user", is_used |-> FALSE] ]

UserModel ==
    [ columns  |-> {"id", "username", "email", "password", "secret_answer",
                    "is_active", "last_login", "updated_at"},
      unique   |-> {"username", "email"},
      required |-> {"username", "email", "password", "secret_answer"},
      defaults |-> [is_active |-> TRUE] ]

\* hasattr(self.model, key), restricted to the mapped columns of the class
HasAttr(model, key) == key \in model.columns

(***************************************************************************)
(* The session.  db is the committed table, tx the table as the open       *)
(* transaction sees it, new the instances added and not yet flushed.       *)
(***************************************************************************)
CleanSession(table) == [db |-> table, tx |-> table, new |-> <<>>]

\* INTEGER PRIMARY KEY autoincrement: one more than the largest id in use
NewId(table) == IF table = {} THEN 1 ELSE Max({r.id : r \in table}) + 1

\* The row an INSERT of instance inst builds: given values, then the column
\* defaults (id: autoincrement, updated_at: func.now()).
InsertedRow(model, table, inst, t) ==
    [ c \in model.columns |->
        IF c \in DOMAIN inst THEN inst[c]
        ELSE IF c = "id" THEN NewId(table)
        ELSE IF c = "updated_at" THEN t
        ELSE IF c \in DOMAIN model.defaults THEN model.defaults[c]
        ELSE None ]

\* The constraints an IntegrityError reports: NOT NULL, PRIMARY KEY, UNIQUE
ViolatesConstraints(model, table, inst) ==
    \/ \E c \in model.required : c \notin DOMAIN inst
    \/ "id" \in DOMAIN inst /\ \E r \in table : r.id = inst.id
    \/ \E c \in model.unique :
          c \in DOMAIN inst /\ \E r \in table : r[c] = inst[c]

\* session.flush(): INSERT the pending instances in the order they were added
RECURSIVE Flush(_, _, _)
Flush(model, s, t) ==
    IF s.new = <<>> THEN [ok |-> TRUE, s |-> s]
    ELSE LET inst == Head(s.new)
         IN IF ViolatesConstraints(model, s.tx, inst)
            THEN [ok |-> FALSE, s |-> s]
            ELSE Flush(model,
                       [s EXCEPT !.tx = @ \cup {InsertedRow(model, s.tx, inst, t)},
                                 !.new = Tail(@)],
                       t)

SessionAdd(s, inst) == [s EXCEPT !.new = Append(@, inst)]

\* session.commit(): flush, then make the transaction's table the committed one
SessionCommit(model, s, t) ==
    LET f == Flush(model, s, t)
    IN IF f.ok THEN [ok |-> TRUE, s |-> CleanSession(f.s.tx)]
       ELSE [ok |-> FALSE, s |-> f.s]

\* session.rollback(): drop the pending instances and the uncommitted changes
SessionRollback(s) == CleanSession(s.db)

\* session.close(): expunge everything and release the transaction
SessionClose(s) == CleanSession(s.db)

(***************************************************************************)
(* BaseController.  Every operation takes the session value s it starts    *)
(* from and yields an outcome: the exception that leaves the call          *)
(* ("" when it returns), the value returned, and the session it leaves.    *)
(***************************************************************************)
Outcome(raised, ret, s) == [raised |-> raised, ret |-> ret, s |-> s]

\* A filter value: a scalar, or a list / tuple (isinstance(value, (list, tuple)))
Scalar(x) == [list |-> FALSE, v |-> <<x>>]
ListOf(seq) == [list |-> TRUE, v |-> seq]

\* _apply_filters: keys that are no attribute of the model are skipped
ApplyFilters(model, rows, filters) ==
    { r \in rows :
        \A key \in DOMAIN filters :
            HasAttr(model, key) =>
                IF filters[key].list
                THEN \E i \in 1..Len(filters[key].v) : r[key] = filters[key].v[i]
                ELSE r[key] = filters[key].v[1] }

\* key.split('__') of the keys that hold '__'
SplitKey ==
    [ code__eq            |-> [field |-> "code", operator |-> "eq"],
      expiration_date__gt |-> [field |-> "expiration_date", operator |-> "gt"],
      expiration_date__lt |-> [field |-> "expiration_date", operator |-> "lt"] ]

HasDunder(key) == key \in DOMAIN SplitKey

\* search: one filter per key; unknown fields and unknown operators are skipped
SearchMatch(model, r, key, value) ==
    IF HasDunder(key)
    THEN LET field == SplitKey[key].field
             operator == SplitKey[key].operator
         IN HasAttr(model, field) =>
               CASE operator = "lt" -> r[field] < value
                 [] operator = "gt" -> r[field] > value
                 [] operator = "eq" -> r[field] = value
                 [] OTHER -> TRUE
    ELSE HasAttr(model, key) => r[key] = value

Search(model, s, filters) ==
    LET rows == { r \in s.tx : \A key \in DOMAIN filters :
                                  SearchMatch(model, r, key, filters[key]) }
    IN Outcome("", rows, SessionClose(s))

\* find_by_attributes with plain keys (its callers pass no '__' key)
FindByAttributes(model, s, kwargs) ==
    LET rows == { r \in s.tx : \A key \in DOMAIN kwargs :
                                  HasAttr(model, key) => r[key] = kwargs[key] }
    IN Outcome("", rows, SessionClose(s))

\* count / exists
Count(model, s, filters) ==
    Outcome("", Cardinality(ApplyFilters(model, s.tx, filters)), SessionClose(s))

Exists(model, s, filters) == Count(model, s, filters).ret > 0

\* create without its "except IntegrityError" clause: the violation leaves
\* through "except SQLAlchemyError" as it came
CreateWithoutIntegrityClause(model, s, kwargs, t) ==
    IF \E key \in DOMAIN kwargs : ~HasAttr(model, key)
    THEN Outcome("TypeError", None, SessionClose(s))
    ELSE LET added == SessionAdd(s, kwargs)
             c == SessionCommit(model, added, t)
         IN IF c.ok
            THEN Outcome("", InsertedRow(model, s.tx, kwargs, t), SessionClose(c.s))
            ELSE Outcome("IntegrityError", None, SessionClose(SessionRollback(c.s)))

\* create
Create(model, s, kwargs, t) ==
    IF \E key \in DOMAIN kwargs : ~HasAttr(model, key)
    THEN \* self.model(**kwargs) raises TypeError, which no except clause catches
         Outcome("TypeError", None, SessionClose(s))
    ELSE LET added == SessionAdd(s, kwargs)
             c == SessionCommit(model, added, t)
         IN IF c.ok
            THEN Outcome("", InsertedRow(model, s.tx, kwargs, t), SessionClose(c.s))
            ELSE Outcome("RecordAlreadyExistsError", None,
                         SessionClose(SessionRollback(c.s)))

\* get_by_id
GetById(model, s, id) ==
    IF \E r \in s.tx : r.id = id
    THEN Outcome("", CHOOSE r \in s.tx : r.id = id, SessionClose(s))
    ELSE Outcome("RecordNotFoundError", None, SessionClose(s))

\* The row an UPDATE ... SET kwargs leaves: the given values, and updated_at
\* from its onupdate=func.now() unless the SET clause names it
UpdatedRow(model, r, kwargs, t) ==
    [ c \in model.columns |->
        IF c \in DOMAIN kwargs THEN kwargs[c]
        ELSE IF c = "updated_at" THEN t
        ELSE r[c] ]

\* The UPDATE collides with a row it does not touch (PRIMARY KEY, UNIQUE)
UpdateViolates(model, table, id, kwargs) ==
    /\ \E r \in table : r.id = id
    /\ \E c \in (model.unique \cup {"id"}) \cap DOMAIN kwargs :
          \E r \in table : r.id # id /\ r[c] = kwargs[c]

\* update
Update(model, s, id, kwargs, t) ==
    LET hit == { r \in s.tx : r.id = id }
        changed == [s EXCEPT !.tx = (@ \ hit) \cup
                                    { UpdatedRow(model, r, kwargs, t) : r \in hit }]
    IN IF \E field \in DOMAIN kwargs : ~HasAttr(model, field)
       THEN Outcome("ValueError", None, SessionClose(SessionRollback(s)))
       ELSE IF UpdateViolates(model, s.tx, id, kwargs)
       THEN Outcome("SQLAlchemyError", None, SessionClose(SessionRollback(s)))
       ELSE IF Cardinality(hit) = 0
       THEN Outcome("RecordNotFoundError", None,
                    SessionClose(SessionRollback(changed)))
       ELSE LET c == SessionCommit(model, changed, t)
                g == GetById(model, c.s, id)
            IN IF g.raised = ""
               THEN Outcome("", g.ret, SessionClose(g.s))
               ELSE Outcome(g.raised, None, SessionClose(SessionRollback(g.s)))

\* delete without its "rows_deleted == 0" test
DeleteWithoutRowCheck(model, s, id) ==
    LET hit == { r \in s.tx : r.id = id }
        changed == [s EXCEPT !.tx = @ \ hit]
    IN Outcome("", TRUE, SessionClose(SessionCommit(model, changed, 0).s))

\* delete
Delete(model, s, id) ==
    LET hit == { r \in s.tx : r.id = id }
        changed == [s EXCEPT !.tx = @ \ hit]
    IN IF Cardinality(hit) = 0
       THEN Outcome("RecordNotFoundError", None,
                    SessionClose(SessionRollback(changed)))
       ELSE Outcome("", TRUE, SessionClose(SessionCommit(model, changed, 0).s))

\* delete_all: "if condition" is false for None and for an empty dict
DeleteAll(model, s, condition) ==
    LET hit == IF DOMAIN condition # {}
               THEN ApplyFilters(model, s.tx, condition)
               ELSE s.tx
        changed == [s EXCEPT !.tx = @ \ hit]
    IN Outcome("", Cardinality(hit),
               SessionClose(SessionCommit(model, changed, 0).s))

\* get_or_create with the update the other way round: kwargs override defaults
GetOrCreateKwargsFirst(model, s, defaults, kwargs, first, t) ==
    LET found == Search(model, s, kwargs)
        made == Create(model, found.s, kwargs @@ defaults, t)
    IN IF found.ret # {}
       THEN Outcome("", [record |-> first, created |-> FALSE],
                    SessionClose(found.s))
       ELSE IF made.raised = ""
       THEN Outcome("", [record |-> made.ret, created |-> TRUE],
                    SessionClose(made.s))
       ELSE Outcome(made.raised, None, SessionClose(made.s))

\* get_or_create; first is instance[0], the row the query lists first
GetOrCreate(model, s, defaults, kwargs, first, t) ==
    LET found == Search(model, s, kwargs)
        new_kwargs == IF DOMAIN defaults # {} THEN defaults @@ kwargs ELSE kwargs
        made == Create(model, found.s, new_kwargs, t)
    IN IF found.ret # {}
       THEN Outcome("", [record |-> first, created |-> FALSE],
                    SessionClose(found.s))
       ELSE IF made.raised = ""
       THEN Outcome("", [record |-> made.ret, created |-> TRUE],
                    SessionClose(made.s))
       ELSE Outcome(made.raised, None, SessionClose(made.s))

(***************************************************************************)
(* RegistrationCodeController                                              *)
(***************************************************************************)
\* verify_code with the expiry test off by one: "<=" for "<"
VerifyCodeExpiresEarly(s, code, t) ==
    LET found == FindByAttributes(RegistrationCodeModel, s,
                                  [code |-> code, is_used |-> FALSE])
        reg_code == CHOOSE r \in found.ret : TRUE
    IN IF found.ret = {}
       THEN Outcome("", [valid |-> FALSE, user_type |-> None], found.s)
       ELSE IF reg_code.expiration_date <= t
       THEN Outcome("", [valid |-> FALSE, user_type |-> None], found.s)
       ELSE Outcome("", [valid |-> TRUE, user_type |-> Some(reg_code.user_type)],
                    found.s)

\* verify_code; any exception inside is caught and yields (False, None)
VerifyCode(s, code, t) ==
    LET found == FindByAttributes(RegistrationCodeModel, s,
                                  [code |-> code, is_used |-> FALSE])
        reg_code == CHOOSE r \in found.ret : TRUE
    IN IF found.ret = {}
       THEN Outcome("", [valid |-> FALSE, user_type |-> None], found.s)
       ELSE IF reg_code.expiration_date < t
       THEN Outcome("", [valid |-> FALSE, user_type |-> None], found.s)
       ELSE Outcome("", [valid |-> TRUE, user_type |-> Some(reg_code.user_type)],
                    found.s)

(***************************************************************************)
(* The state machine.  A call record keeps what the call was given, the    *)
(* committed table it started from and how it ended.                       *)
(***************************************************************************)
Call(op, args, pre, out) ==
    [op |-> op, args |-> args, pre |-> pre, raised |-> out.raised, ret |-> out.ret]

NoCall == [op |-> "none", args |-> <<>>, pre |-> {}, raised |-> "", ret |-> None]
NoPassword == [password |-> <<>>, valid |-> FALSE, message |-> "not validated"]

Init ==
    /\ store = CleanSession({})
    /\ ustore = CleanSession({})
    /\ now = 0
    /\ last = NoCall
    /\ pw = NoPassword
    /\ calls = <<>>
    /\ form = None
    /\ worker = None

\* No call is running: the caller has taken the outcome of the last one
Idle == last.op = "none"

\* the caller takes the outcome of the call (the tuple returned, or the
\* exception in its except clause) and goes back to the event loop
Return ==
    /\ ~Idle
    /\ last' = NoCall
    /\ UNCHANGED <<store, ustore, now, pw, calls, form, worker>>

\* time passes between calls
Tick ==
    /\ Idle
    /\ now < MaxTime
    /\ now' = now + 1
    /\ UNCHANGED <<store, ustore, last, pw, calls, form, worker>>

(***************************************************************************)
(* Calls on a RegistrationCodeController, and the inputs they draw from.   *)
(***************************************************************************)
Codes == {"A1", "B2"}
Ids == 1..(MaxRows + 1)
CodeUserType == [A1 |-> "admin", B2 |-> "user"]

CreateInputs ==
    UNION { { [code |-> c, expiration_date |-> 1, user_type |-> CodeUserType[c]],
              [code |-> c, expiration_date |-> 1, user_type |-> CodeUserType[c],
               is_used |-> TRUE],
              [code |-> c, expiration_date |-> 1, user_type |-> CodeUserType[c],
               bogus |-> 1] } : c \in Codes }
    \cup { [code |-> "B2", expiration_date |-> 1, id |-> i] : i \in Ids }
    \cup { [expiration_date |-> 1] }

UpdateInputs ==
    { [is_used |-> b] : b \in BOOLEAN }
    \cup { [code |-> c] : c \in Codes }
    \cup { [id |-> i] : i \in Ids }
    \cup { [bogus |-> 1], [is_used |-> TRUE, bogus |-> 1] }

Conditions ==
    { <<>>,
      [is_used |-> Scalar(TRUE)],
      [is_used |-> Scalar(FALSE), code |-> Scalar("A1")],
      [code |-> ListOf(<<"A1", "B2">>)],
      [code |-> ListOf(<<>>)],
      [bogus |-> Scalar(1)],
      [is_used |-> Scalar(TRUE), bogus |-> Scalar(1)] }

\* <<kwargs, defaults>> of get_or_create
GetOrCreateInputs ==
    { <<[code |-> c], [expiration_date |-> 1]>> : c \in Codes }
    \cup { <<[code |-> c, expiration_date |-> 1], <<>>>> : c \in Codes }
    \cup { <<[is_used |-> b], [code |-> "A1", expiration_date |-> 1]>> : b \in BOOLEAN }
    \cup { <<[code |-> "A1", expiration_date |-> 1], [code |-> "B2"]>>,
           <<[code |-> "A1"], <<>>>>,
           <<[code__eq |-> "A1"], [expiration_date |-> 1]>>,
           <<[expiration_date__lt |-> 2], [code |-> "B2", expiration_date |-> 1]>>,
           <<[bogus |-> 1], [code |-> "A1", expiration_date |-> 1]>> }

CreateCall ==
    \E kwargs \in CreateInputs :
        /\ Idle
        /\ Cardinality(store.db) < MaxRows
        /\ NewId(store.db) \in Ids
        /\ LET out == Create(RegistrationCodeModel, store, kwargs, now)
           IN /\ store' = out.s
              /\ last' = Call("create", [kwargs |-> kwargs], store.db, out)
        /\ UNCHANGED <<ustore, now, pw, calls, form, worker>>

UpdateCall ==
    \E id \in Ids, kwargs \in UpdateInputs :
        /\ Idle
        /\ LET out == Update(RegistrationCodeModel, store, id, kwargs, now)
           IN /\ store' = out.s
              /\ last' = Call("update", [id |-> id, kwargs |-> kwargs], store.db, out)
        /\ UNCHANGED <<ustore, now, pw, calls, form, worker>>

DeleteCall ==
    \E id \in Ids :
        /\ Idle
        /\ LET out == Delete(RegistrationCodeModel, store, id)
           IN /\ store' = out.s
              /\ last' = Call("delete", [id |-> id], store.db, out)
        /\ UNCHANGED <<ustore, now, pw, calls, form, worker>>

DeleteAllCall ==
    \E condition \in Conditions :
        /\ Idle
        /\ LET out == DeleteAll(RegistrationCodeModel, store, condition)
           IN /\ store' = out.s
              /\ last' = Call("delete_all", [condition |-> condition], store.db, out)
        /\ UNCHANGED <<ustore, now, pw, calls, form, worker>>

\* instance[0] is any row of the result: the query states no order
GetOrCreateCall ==
    \E in \in GetOrCreateInputs :
        LET kwargs == in[1]
            defaults == in[2]
            matches == Search(RegistrationCodeModel, store, kwargs).ret
        IN /\ Idle
           /\ matches = {} => Cardinality(store.db) < MaxRows /\ NewId(store.db) \in Ids
           /\ \E first \in (IF matches = {} THEN {None} ELSE matches) :
                 LET out == GetOrCreate(RegistrationCodeModel, store, defaults,
                                        kwargs, first, now)
                 IN /\ store' = out.s
                    /\ last' = Call("get_or_create",
                                    [kwargs |-> kwargs, defaults |-> defaults],
                                    store.db, out)
           /\ UNCHANGED <<ustore, now, pw, calls, form, worker>>

VerifyCodeCall ==
    \E code \in Codes \cup {"C3"} :
        /\ Idle
        /\ LET out == VerifyCode(store, code, now)
           IN /\ store' = out.s
              /\ last' = Call("verify_code", [code |-> code, t |-> now], store.db, out)
        /\ UNCHANGED <<ustore, now, pw, calls, form, worker>>

Next ==
    \/ Return
    \/ Tick
    \/ CreateCall
    \/ UpdateCall
    \/ DeleteCall
    \/ DeleteAllCall
    \/ GetOrCreateCall
    \/ VerifyCodeCall

Spec == Init /\ [][Next]_vars

(***************************************************************************)
(* Properties of the calls on the registration_codes table (Spec).         *)
(***************************************************************************)
Model == RegistrationCodeModel
SessionIsClean == store.tx = store.db /\ store.new = <<>>

\* C5: verify_code(code) returns (True, the code's user_type) exactly when a
\* stored registration code equals code, is unused and expires no earlier than
\* the current time; otherwise (False, None).  It never raises and never
\* modifies the store.
C5_VerifyCode ==
    last.op = "verify_code" =>
        LET usable == { r \in last.pre : /\ r.code = last.args.code
                                         /\ r.is_used = FALSE
                                         /\ r.expiration_date >= last.args.t }
        IN /\ last.raised = ""
           /\ store.db = last.pre
           /\ SessionIsClean
           /\ IF usable # {}
              THEN /\ last.ret.valid
                   /\ \E r \in usable : last.ret.user_type = Some(r.user_type)
              ELSE last.ret = [valid |-> FALSE, user_type |-> None]

\* C5 witness: a stored code is accepted at the very instant it expires, while
\* another stored code exists
C5_Witness ==
    /\ last.op = "verify_code"
    /\ last.ret.valid
    /\ last.ret.user_type = Some("admin")
    /\ Cardinality(last.pre) = 2
    /\ \E r \in last.pre : r.code = last.args.code /\ r.expiration_date = last.args.t

\* C6: create raises RecordAlreadyExistsError on a uniqueness violation, the
\* stored records are then those before the call and nothing stays pending in
\* the session; when it succeeds exactly one record with the given field values
\* is added and returned.
C6_Create ==
    last.op = "create" =>
        LET kwargs == last.args.kwargs
            duplicate == /\ DOMAIN kwargs \subseteq Model.columns
                         /\ \E c \in {"id", "code"} \cap DOMAIN kwargs :
                               \E r \in last.pre : r[c] = kwargs[c]
        IN /\ duplicate => /\ last.raised = "RecordAlreadyExistsError"
                           /\ store.db = last.pre
                           /\ SessionIsClean
           /\ last.raised = "" =>
                 /\ last.ret \notin last.pre
                 /\ store.db = last.pre \cup {last.ret}
                 /\ \A key \in DOMAIN kwargs : last.ret[key] = kwargs[key]
                 /\ \A r \in last.pre : r.id # last.ret.id
                 /\ SessionIsClean

\* C6 witness: a create refused for a code that is already stored
C6_Witness ==
    /\ last.op = "create"
    /\ last.raised = "RecordAlreadyExistsError"
    /\ "code" \in DOMAIN last.args.kwargs
    /\ "id" \notin DOMAIN last.args.kwargs
    /\ \E r \in last.pre : r.code = last.args.kwargs.code
    /\ store.db = last.pre

\* C7: update raises ValueError for a keyword that is no attribute of the
\* model and RecordNotFoundError when no record has the id, changing nothing;
\* otherwise exactly the record with that id takes the given values, every
\* other record and every field not named stays unchanged, and the updated
\* record is returned.
C7_Update ==
    last.op = "update" =>
        LET kwargs == last.args.kwargs
            hit == { r \in last.pre : r.id = last.args.id }
        IN IF \E key \in DOMAIN kwargs : key \notin Model.columns
           THEN last.raised = "ValueError" /\ store.db = last.pre
           ELSE IF hit = {}
           THEN last.raised = "RecordNotFoundError" /\ store.db = last.pre
           ELSE /\ last.raised = ""
                /\ \E old \in hit :
                      LET new == [c \in Model.columns |->
                                     IF c \in DOMAIN kwargs THEN kwargs[c] ELSE old[c]]
                      IN /\ store.db = (last.pre \ {old}) \cup {new}
                         /\ last.ret = new

\* C8: delete returns True and removes exactly the record with the id when it
\* exists; otherwise it raises RecordNotFoundError and the stored records are
\* unchanged.
C8_Delete ==
    last.op = "delete" =>
        LET hit == { r \in last.pre : r.id = last.args.id }
        IN IF hit # {}
           THEN /\ last.raised = ""
                /\ last.ret = TRUE
                /\ store.db = last.pre \ hit
                /\ Cardinality(store.db) = Cardinality(last.pre) - 1
                /\ SessionIsClean
           ELSE /\ last.raised = "RecordNotFoundError"
                /\ store.db = last.pre
                /\ SessionIsClean

\* C8 witness: one of two stored records is deleted
C8_Witness ==
    /\ last.op = "delete"
    /\ last.raised = ""
    /\ last.ret = TRUE
    /\ Cardinality(last.pre) = 2
    /\ Cardinality(store.db) = 1

\* A record matches a condition when it equals every key/value pair of it, a
\* list value meaning membership
MatchesAllPairs(r, condition) ==
    \A key \in DOMAIN condition :
        /\ key \in DOMAIN r
        /\ IF condition[key].list
           THEN \E i \in 1..Len(condition[key].v) : r[key] = condition[key].v[i]
           ELSE r[key] = condition[key].v[1]

\* C9: delete_all(condition) deletes exactly the records that match every pair
\* of the condition, returns their number and leaves every other record in
\* place; only without a condition does it delete every record.
C9_DeleteAll ==
    last.op = "delete_all" =>
        LET doomed == { r \in last.pre : MatchesAllPairs(r, last.args.condition) }
        IN /\ last.raised = ""
           /\ store.db = last.pre \ doomed
           /\ last.ret = Cardinality(doomed)

\* The records search(kwargs) finds in a table
Matching(table, kwargs) == Search(Model, CleanSession(table), kwargs).ret

\* A second get_or_create with the arguments of the last one, on the store as
\* the last one left it
SecondCall ==
    GetOrCreate(Model, store, last.args.defaults, last.args.kwargs,
                IF Matching(store.db, last.args.kwargs) = {} THEN None
                ELSE CHOOSE r \in Matching(store.db, last.args.kwargs) : TRUE,
                now)

SecondCallCreatesNothing ==
    /\ SecondCall.raised = ""
    /\ SecondCall.ret.created = FALSE
    /\ SecondCall.s.db = store.db

MIN_LENGTH == 8
MAX_LENGTH == 50

\* [A-Z]
UpperAZ ==
    {"A", "B", "C", "D", "E", "F", "G", "H", "I", "J", "K", "L", "M", "N",
      "O", "P", "Q", "R", "S", "T", "U", "V", "W", "X", "Y", "Z" }

\* [a-z]
LowerAZ ==
    {"a", "b", "c", "d", "e", "f", "g", "h", "i", "j", "k", "l", "m", "n",
      "o", "p", "q", "r", "s", "t", "u", "v", "w", "x", "y", "z" }

\* \d, on ASCII text
Digit09 ==
    {"0", "1", "2", "3", "4", "5", "6", "7", "8", "9" }

\* the character class of the last re.search of _validate_password; ",-." in
\* it is the range from "," to "."; "grave" stands for the grave accent
SpecialClass ==
    {" ", "!", "@", "#", "$", "%", "&", "'", "(", ")", "*", "+", ",", "-",
      ".", "/", "[", "\\", "]", "^", "_", "grave", "{", "|", "}", "~", "\"" }

\* re.search(r'[...]', password)
ReSearch(class, password) == \E i \in 1..Len(password) : password[i] \in class

Verdict(valid, message) == [valid |-> valid, message |-> message]

\* _validate_password
ValidatePassword(password) ==
    IF ~(MIN_LENGTH <= Len(password) /\ Len(password) <= MAX_LENGTH)
    THEN Verdict(FALSE, "Password must be between 8 and 50 characters")
    ELSE IF ~ReSearch(UpperAZ, password)
    THEN Verdict(FALSE, "Password must contain at least one uppercase letter")
    ELSE IF ~ReSearch(LowerAZ, password)
    THEN Verdict(FALSE, "Password must contain at least one lowercase letter")
    ELSE IF ~ReSearch(Digit09, password)
    THEN Verdict(FALSE, "Password must contain at least one digit")
    ELSE IF ~ReSearch(SpecialClass, password)
    THEN Verdict(FALSE, "Password must contain at least one special character")
    ELSE Verdict(TRUE, "")

(***************************************************************************)
(* The passwords _validate_password is tried on: every text of at most     *)
(* MaxCore characters over Alphabet, alone and padded with one repeated    *)
(* character to the lengths around MIN_LENGTH and MAX_LENGTH.              *)
(***************************************************************************)
MaxCore == 3

Alphabet == {"A", "b", "1", "!", "?", " "}

Cores == UNION { [1..n -> Alphabet] : n \in 0..MaxCore }

PadTo(core, c, n) == [i \in 1..n |-> IF i <= Len(core) THEN core[i] ELSE c]

Passwords ==
    Cores \cup
    { PadTo(core, c, n) :
        core \in Cores, c \in Alphabet,
        n \in {MIN_LENGTH - 1, MIN_LENGTH, MAX_LENGTH, MAX_LENGTH + 1} }

InitPw ==
    /\ store = CleanSession({})
    /\ ustore = CleanSession({})
    /\ now = 0
    /\ last = NoCall
    /\ pw \in { [password |-> p, valid |-> FALSE, message |-> "not validated"] :
                  p \in Passwords }
    /\ calls = <<>>
    /\ form = None
    /\ worker = None

ValidateCall ==
    /\ pw.message = "not validated"
    /\ LET v == ValidatePassword(pw.password)
       IN pw' = [password |-> pw.password, valid |-> v.valid, message |-> v.message]
    /\ UNCHANGED <<store, ustore, now, last, calls, form, worker>>

NextPw == ValidateCall

SpecPw == InitPw /\ [][NextPw]_vars

\* The ASCII punctuation characters ("grave": the grave accent)
Punctuation ==
    {"!", "\"", "#", "$", "%", "&", "'", "(", ")", "*", "+", ",", "-", ".",
      "/", ":", ";", "<", "=", ">", "?", "@", "[", "\\", "]", "^", "_",
      "grave", "{", "|", "}", "~" }

Has(class, password) == \E i \in 1..Len(password) : password[i] \in class

\* C3: _validate_password(p) returns (True, None) exactly when
\* 8 <= len(p) <= 50 and p holds an uppercase letter, a lowercase letter, a
\* digit and a special character (punctuation or space); otherwise
\* (False, message), the message naming the first failed criterion in the
\* order length, uppercase, lowercase, digit, special character.
C3_ValidatePassword ==
    pw.message # "not validated" =>
        LET p == pw.password
            lengthOk == 8 <= Len(p) /\ Len(p) <= 50
            special == Has(Punctuation \cup {" "}, p)
        IN /\ pw.valid <=> /\ lengthOk
                           /\ Has(UpperAZ, p)
                           /\ Has(LowerAZ, p)
                           /\ Has(Digit09, p)
                           /\ special
           /\ pw.valid => pw.message = ""
           /\ ~pw.valid =>
                 pw.message =
                    IF ~lengthOk
                    THEN "Password must be between 8 and 50 characters"
                    ELSE IF ~Has(UpperAZ, p)
                    THEN "Password must contain at least one uppercase letter"
                    ELSE IF ~Has(LowerAZ, p)
                    THEN "Password must contain at least one lowercase letter"
                    ELSE IF ~Has(Digit09, p)
                    THEN "Password must contain at least one digit"
                    ELSE "Password must contain at least one special character"

(***************************************************************************)
(* AuthController: hashing.  The value of the password and secret_answer   *)
(* columns is a string: either a bcrypt hash, which holds its salt and     *)
(* stands for one text (texts here are shorter than the 72 bytes bcrypt    *)
(* reads), or some other text.                                             *)
(***************************************************************************)
Salts == {"s1", "s2"}

\* a stored string that is no bcrypt hash
Text(text) == [kind |-> "text", salt |-> "", text |-> text]

\* _hash_password with the salt bcrypt.gensalt() drew
HashPassword(password, salt) == [kind |-> "bcrypt", salt |-> salt, text |-> password]

\* _check_password: bcrypt.checkpw raises ValueError on a string that is no hash
CheckPassword(password, hashed_password) ==
    IF hashed_password.kind # "bcrypt"
    THEN [raised |-> "ValueError", ret |-> FALSE]
    ELSE [raised |-> "",
          ret |-> HashPassword(password, hashed_password.salt) = hashed_password]

\* str.lower(), on ASCII text
LowerOf ==
    [ A |-> "a", B |-> "b", C |-> "c", D |-> "d", E |-> "e", F |-> "f", G
      |-> "g", H |-> "h", I |-> "i", J |-> "j", K |-> "k", L |-> "l", M
      |-> "m", N |-> "n", O |-> "o", P |-> "p", Q |-> "q", R |-> "r", S
      |-> "s", T |-> "t", U |-> "u", V |-> "v", W |-> "w", X |-> "x", Y
      |-> "y", Z |-> "z" ]

Lower(text) ==
    [ i \in 1..Len(text) |->
        IF text[i] \in DOMAIN LowerOf THEN LowerOf[text[i]] ELSE text[i] ]

(***************************************************************************)
(* AuthController: the operations.                                         *)
(***************************************************************************)
\* update_last_login: True, or False when update raised
UpdateLastLogin(s, user_id, t) ==
    LET u == Update(UserModel, s, user_id, [last_login |-> Some(t)], t)
    IN Outcome("", u.raised = "", u.s)

Denied(s) == Outcome("", [ok |-> FALSE, user |-> None], s)

\* authenticate without its is_active test
AuthenticateInactiveToo(s, username, password, t) ==
    LET found == FindByAttributes(UserModel, s, [username |-> username])
        user == CHOOSE r \in found.ret : TRUE
        checked == CheckPassword(password, user.password)
    IN IF found.ret = {} THEN Denied(found.s)
       ELSE IF checked.raised # "" THEN Denied(found.s)
       ELSE IF checked.ret
       THEN Outcome("", [ok |-> TRUE, user |-> Some(user)],
                    UpdateLastLogin(found.s, user.id, t).s)
       ELSE Denied(found.s)

\* authenticate; "except Exception" turns every exception into (False, None)
Authenticate(s, username, password, t) ==
    LET found == FindByAttributes(UserModel, s, [username |-> username])
        user == CHOOSE r \in found.ret : TRUE
        checked == CheckPassword(password, user.password)
    IN IF found.ret = {} THEN Denied(found.s)
       ELSE IF ~user.is_active THEN Denied(found.s)
       ELSE IF checked.raised # "" THEN Denied(found.s)
       ELSE IF checked.ret
       THEN Outcome("", [ok |-> TRUE, user |-> Some(user)],
                    UpdateLastLogin(found.s, user.id, t).s)
       ELSE Denied(found.s)

\* create_user that stores the password as it is given
CreateUserUnhashed(s, username, email, password, secret_answer, salt1, salt2, t) ==
    LET checked == ValidatePassword(password)
        made == Create(UserModel, s,
                       [ username |-> username,
                         email |-> email,
                         password |-> Text(password),
                         secret_answer |-> HashPassword(Lower(secret_answer), salt2) ],
                       t)
    IN IF ~checked.valid
       THEN Outcome("PasswordValidationError", checked.message, s)
       ELSE IF \/ Exists(UserModel, s, [username |-> Scalar(username)])
               \/ Exists(UserModel, s, [email |-> Scalar(email)])
       THEN Outcome("", None, SessionClose(s))
       ELSE IF made.raised # ""
       THEN Outcome("", None, made.s)
       ELSE Outcome("", Some(made.ret), made.s)

\* create_user; PasswordValidationError is raised again, every other exception
\* becomes None
CreateUser(s, username, email, password, secret_answer, salt1, salt2, t) ==
    LET checked == ValidatePassword(password)
        made == Create(UserModel, s,
                       [ username |-> username,
                         email |-> email,
                         password |-> HashPassword(password, salt1),
                         secret_answer |-> HashPassword(Lower(secret_answer), salt2) ],
                       t)
    IN IF ~checked.valid
       THEN Outcome("PasswordValidationError", checked.message, s)
       ELSE IF \/ Exists(UserModel, s, [username |-> Scalar(username)])
               \/ Exists(UserModel, s, [email |-> Scalar(email)])
       THEN Outcome("", None, SessionClose(s))
       ELSE IF made.raised # ""
       THEN Outcome("", None, made.s)
       ELSE Outcome("", Some(made.ret), made.s)

\* change_password that stores the new password as it is given
ChangePasswordUnhashed(s, user_id, new_password, salt, t) ==
    LET checked == ValidatePassword(new_password)
        u == Update(UserModel, s, user_id, [password |-> Text(new_password)], t)
    IN IF ~checked.valid
       THEN Outcome("PasswordValidationError", checked.message, s)
       ELSE IF u.raised # ""
       THEN Outcome("", FALSE, u.s)
       ELSE Outcome("", TRUE, u.s)

\* change_password
ChangePassword(s, user_id, new_password, salt, t) ==
    LET checked == ValidatePassword(new_password)
        u == Update(UserModel, s, user_id,
                    [password |-> HashPassword(new_password, salt)], t)
    IN IF ~checked.valid
       THEN Outcome("PasswordValidationError", checked.message, s)
       ELSE IF u.raised # ""
       THEN Outcome("", FALSE, u.s)
       ELSE Outcome("", TRUE, u.s)

(***************************************************************************)
(* Calls on an AuthController (SpecAuth), and the inputs they draw from.   *)
(***************************************************************************)
MaxAuthTime == 1

GoodPassword == <<"A", "b", "c", "d", "e", "f", "1", "!">>
OtherPassword == <<"Z", "y", "x", "w", "v", "u", "9", "#">>
ShortPassword == <<"A", "b", "1", "!">>
AuthPasswords == {GoodPassword, OtherPassword, ShortPassword}

Usernames == {"ann", "bob"}
\* <<username, email>> of create_user
NewUsers == {<<"ann", "ann@x">>, <<"bob", "bob@x">>, <<"bob", "ann@x">>}
SecretAnswer == <<"R", "e", "x">>
\* the ids a caller passes: those of the rows the table can hold
UserIds == 1..MaxRows
\* the salts drawn for the secret answer, which no operation here reads back
AnswerSalts == {"s1"}

CreateUserCall ==
    \E user \in NewUsers, password \in AuthPasswords,
       salt1 \in Salts, salt2 \in AnswerSalts :
        /\ Idle
        /\ Cardinality(ustore.db) < MaxRows
        /\ NewId(ustore.db) \in Ids
        /\ LET out == CreateUser(ustore, user[1], user[2], password, SecretAnswer,
                                 salt1, salt2, now)
           IN /\ ustore' = out.s
              /\ last' = Call("create_user",
                              [username |-> user[1], email |-> user[2],
                               password |-> password, secret_answer |-> SecretAnswer],
                              ustore.db, out)
        /\ UNCHANGED <<store, now, pw, calls, form, worker>>

AuthenticateCall ==
    \E username \in Usernames \cup {"eve"}, password \in {GoodPassword, OtherPassword} :
        /\ Idle
        /\ LET out == Authenticate(ustore, username, password, now)
           IN /\ ustore' = out.s
              /\ last' = Call("authenticate",
                              [username |-> username, password |-> password],
                              ustore.db, out)
        /\ UNCHANGED <<store, now, pw, calls, form, worker>>

ChangePasswordCall ==
    \E user_id \in UserIds, new_password \in AuthPasswords, salt \in Salts :
        /\ Idle
        /\ LET out == ChangePassword(ustore, user_id, new_password, salt, now)
           IN /\ ustore' = out.s
              /\ last' = Call("change_password",
                              [user_id |-> user_id, new_password |-> new_password],
                              ustore.db, out)
        /\ UNCHANGED <<store, now, pw, calls, form, worker>>

\* a user edited through the generic controller (the table view's edit form):
\* deactivated, reactivated, or given a password that is no hash
EditUserCall ==
    \E id \in UserIds,
       kwargs \in { [is_active |-> FALSE], [is_active |-> TRUE],
                    [password |-> Text(GoodPassword)] } :
        /\ Idle
        /\ LET out == Update(UserModel, ustore, id, kwargs, now)
           IN /\ ustore' = out.s
              /\ last' = Call("edit_user", [id |-> id, kwargs |-> kwargs],
                              ustore.db, out)
        /\ UNCHANGED <<store, now, pw, calls, form, worker>>

\* the clock of the users table moves on between two calls
TickAuth ==
    /\ Idle
    /\ now < MaxAuthTime
    /\ now' = now + 1
    /\ UNCHANGED <<store, ustore, last, pw, calls, form, worker>>

NextAuth ==
    \/ Return
    \/ TickAuth
    \/ CreateUserCall
    \/ AuthenticateCall
    \/ ChangePasswordCall
    \/ EditUserCall

SpecAuth == Init /\ [][NextAuth]_vars

(***************************************************************************)
(* Claims on the AuthController (SpecAuth).                                *)
(***************************************************************************)
UsersSessionIsClean == ustore.tx = ustore.db /\ ustore.new = <<>>

\* the stored string is a bcrypt hash of the text
IsHashOf(stored, text) == stored.kind = "bcrypt" /\ stored.text = text

\* every record of the first table but the one with this id is in the second,
\* and both tables hold the same ids
OthersKept(before, after, id) ==
    /\ { r.id : r \in before } = { r.id : r \in after }
    /\ \A r \in before : r.id # id => r \in after

\* C1: authenticate(username, password) returns (True, user) only if a stored
\* user has that username, is active and has a stored hash the password
\* matches; in every other case, an exception inside it included, it returns
\* (False, None) and does not raise.  last_login is updated only on success,
\* and a failed attempt changes no stored record.
C1_Authenticate ==
    last.op = "authenticate" =>
        LET matched == { r \in last.pre : /\ r.username = last.args.username
                                          /\ r.is_active
                                          /\ IsHashOf(r.password, last.args.password) }
        IN /\ last.raised = ""
           /\ UsersSessionIsClean
           /\ last.ret.ok => \E r \in matched : last.ret.user = Some(r)
           /\ ~last.ret.ok => /\ last.ret.user = None
                              /\ ustore.db = last.pre
           /\ \A r \in last.pre : \A q \in ustore.db :
                 (q.id = r.id /\ q.last_login # r.last_login) =>
                    /\ last.ret.ok
                    /\ last.ret.user = Some(r)
           /\ last.ret.ok => OthersKept(last.pre, ustore.db, last.ret.user[1].id)

\* C1 witness: a second login of an active user, at a later time and with
\* another user stored, moves that user's last_login
C1_Witness ==
    /\ last.op = "authenticate"
    /\ last.ret.ok
    /\ Cardinality(last.pre) = 2
    /\ \E r \in last.pre : /\ r.username = last.args.username
                           /\ r.last_login # None
                           /\ r.last_login # Some(now)
    /\ \E q \in ustore.db : q.username = last.args.username /\ q.last_login = Some(now)

\* C2: create_user has exactly three outcomes: PasswordValidationError when
\* the password fails the policy; None when the username or the email is
\* that of a stored user; otherwise exactly one user is added and returned.
\* No user is added in the first two; in the third the stored password and
\* secret answer are hashes, never the texts passed in.
C2_CreateUser ==
    last.op = "create_user" =>
        LET a == last.args
            valid == ValidatePassword(a.password).valid
            taken == \E r \in last.pre : r.username = a.username \/ r.email = a.email
        IN /\ UsersSessionIsClean
           /\ last.raised \in {"", "PasswordValidationError"}
           /\ ~valid => /\ last.raised = "PasswordValidationError"
                        /\ ustore.db = last.pre
           /\ (valid /\ taken) => /\ last.raised = ""
                                  /\ last.ret = None
                                  /\ ustore.db = last.pre
           /\ (valid /\ ~taken) =>
                 /\ last.raised = ""
                 /\ last.ret # None
                 /\ LET user == last.ret[1]
                    IN /\ user \notin last.pre
                       /\ ustore.db = last.pre \cup {user}
                       /\ \A r \in last.pre : r.id # user.id
                       /\ user.username = a.username
                       /\ user.email = a.email
                       /\ IsHashOf(user.password, a.password)
                       /\ user.password # Text(a.password)
                       /\ user.secret_answer.kind = "bcrypt"
                       /\ user.secret_answer # Text(a.secret_answer)

\* C2 witness: None for an email that a user of another name holds, with a
\* password that meets the policy
C2_Witness ==
    /\ last.op = "create_user"
    /\ last.raised = ""
    /\ last.ret = None
    /\ ustore.db = last.pre
    /\ \E r \in last.pre : r.email = last.args.email
    /\ \A r \in last.pre : r.username # last.args.username

\* the target of a change_password call and what the call was given
Target == { r \in last.pre : r.id = last.args.user_id }
WouldLogin(username, password) == Authenticate(ustore, username, password, now).ret.ok
OldPasswords(r) == { p \in AuthPasswords : p # last.args.new_password /\ IsHashOf(r.password, p) }

\* what C4 and its amended form share: the two failures of change_password
\* change nothing, and a call that neither raises nor misses its user returns True
ChangePasswordOutcomes ==
    LET valid == ValidatePassword(last.args.new_password).valid
    IN /\ UsersSessionIsClean
       /\ last.raised \in {"", "PasswordValidationError"}
       /\ ~valid => /\ last.raised = "PasswordValidationError"
                    /\ ustore.db = last.pre
       /\ (valid /\ Target = {}) => /\ last.raised = ""
                                    /\ last.ret = FALSE
                                    /\ ustore.db = last.pre
       /\ (valid /\ Target # {}) => /\ last.raised = ""
                                    /\ last.ret = TRUE

Changed == last.op = "change_password" /\ last.raised = "" /\ last.ret = TRUE

\* C4: change_password(user_id, new_password) raises PasswordValidationError
\* and changes nothing when the new password fails the policy, returns False
\* and changes nothing when no user has user_id, and otherwise returns True
\* with only that user's password changed; after True, authenticate succeeds
\* for that user with the new password and fails with the old one when the
\* two differ.
C4_ChangePassword ==
    last.op = "change_password" =>
        /\ ChangePasswordOutcomes
        /\ Changed =>
              \A r \in Target :
                 /\ OthersKept(last.pre, ustore.db, r.id)
                 /\ \E q \in ustore.db :
                       /\ q.id = r.id
                       /\ \A c \in UserModel.columns \ {"password"} : q[c] = r[c]
                 /\ WouldLogin(r.username, last.args.new_password)
                 /\ \A p \in OldPasswords(r) : ~WouldLogin(r.username, p)

\* C4 as the code has it: after True the user's password is a hash of the new
\* password and updated_at is the time of the call, every other column and
\* every other user is as before; authenticate then succeeds with the new
\* password exactly when the user is active, and fails with the old one when
\* the two differ.
C4_ChangePasswordAmended ==
    last.op = "change_password" =>
        /\ ChangePasswordOutcomes
        /\ Changed =>
              \A r \in Target :
                 /\ OthersKept(last.pre, ustore.db, r.id)
                 /\ \E q \in ustore.db :
                       /\ q.id = r.id
                       /\ IsHashOf(q.password, last.args.new_password)
                       /\ q.updated_at = now
                       /\ \A c \in UserModel.columns \ {"password", "updated_at"} :
                             q[c] = r[c]
                 /\ WouldLogin(r.username, last.args.new_password) <=> r.is_active
                 /\ \A p \in OldPasswords(r) : ~WouldLogin(r.username, p)

\* C4 witness: the password of a user who could log in is changed to another
\* one at a later time than the user's last change, with a second user stored
C4_Witness ==
    /\ Changed
    /\ Cardinality(last.pre) = 2
    /\ \E r \in Target : /\ r.is_active
                         /\ r.updated_at < now
                         /\ OldPasswords(r) # {}

(***************************************************************************)
(* paginate, in base_controller.py and in base.py (SpecPage).  A query     *)
(* without ORDER BY, or ordered by a column some rows share, states no     *)
(* order for those rows: order is the sequence the database answers the    *)
(* query with before OFFSET and LIMIT are applied.                         *)
(***************************************************************************)
Min(a, b) == IF a <= b THEN a ELSE b

\* the sequences that hold every element of S once
Perms(S) ==
    { f \in [1..Cardinality(S) -> S] :
        \A i, j \in 1..Cardinality(S) : i # j => f[i] # f[j] }

\* query.offset(offset).limit(limit).all()
Slice(order, offset, limit) == SubSeq(order, offset + 1, Min(offset + limit, Len(order)))

\* the rows of the query after "if filters: query = self._apply_filters(...)"
Filtered(model, s, filters) ==
    IF DOMAIN filters # {} THEN ApplyFilters(model, s.tx, filters) ELSE s.tx

\* base_controller.py: paginate
Paginate(model, s, page, per_page, filters, order) ==
    LET offset == (page - 1) * per_page
        total == Cardinality(Filtered(model, s, filters))
    IN Outcome("",
               [ items |-> Slice(order, offset, per_page),
                 total |-> total,
                 page |-> page,
                 per_page |-> per_page,
                 pages |-> (total + per_page - 1) \div per_page ],
               SessionClose(s))

\* base.py: _apply_filters reads getattr(self.model, key) of every key
BaseFilterRaises(model, filters) == \E key \in DOMAIN filters : ~HasAttr(model, key)

\* query.order_by(asc(column)) or desc(column): what an order has to satisfy
Sorted(order, options) ==
    options.order_by # None =>
        \A i \in 1..(Len(order) - 1) :
            IF options.descending
            THEN order[i][options.order_by[1]] >= order[i + 1][options.order_by[1]]
            ELSE order[i][options.order_by[1]] <= order[i + 1][options.order_by[1]]

\* base.py: paginate(options); the AttributeError of _apply_filters passes
\* through "finally: session.close()"
BasePaginate(model, s, options, order) ==
    LET offset == (options.page - 1) * options.per_page
        total == Cardinality(Filtered(model, s, options.filters))
    IN IF DOMAIN options.filters # {} /\ BaseFilterRaises(model, options.filters)
       THEN Outcome("AttributeError", None, SessionClose(s))
       ELSE Outcome("",
                    [ items |-> Slice(order, offset, options.per_page),
                      total |-> total,
                      page |-> options.page,
                      per_page |-> options.per_page,
                      pages |-> (total + options.per_page - 1) \div options.per_page ],
                    SessionClose(s))

PageNumbers == 1..(MaxRows + 1)
PerPages == 1..MaxRows
PageFilters ==
    { <<>>,
      [is_used |-> Scalar(FALSE)],
      [code |-> ListOf(<<"A1", "B2">>)],
      [bogus |-> Scalar(1)] }

\* order_by and direction of PaginationOptions
PageOrders ==
    { [order_by |-> None, descending |-> FALSE],
      [order_by |-> Some("id"), descending |-> TRUE],
      [order_by |-> Some("expiration_date"), descending |-> FALSE] }

PaginateCall ==
    \E page \in PageNumbers, per_page \in PerPages, filters \in PageFilters :
        \E order \in Perms(Filtered(RegistrationCodeModel, store, filters)) :
            /\ Idle
            /\ LET out == Paginate(RegistrationCodeModel, store, page, per_page,
                                   filters, order)
               IN /\ store' = out.s
                  /\ last' = Call("paginate",
                                  [ page |-> page, per_page |-> per_page,
                                    filters |-> filters,
                                    order_by |-> None, descending |-> FALSE ],
                                  store.db, out)
            /\ UNCHANGED <<ustore, now, pw, calls, form, worker>>

BasePaginateCall ==
    \E page \in PageNumbers, per_page \in PerPages, filters \in PageFilters,
       by \in PageOrders :
        LET options == [ page |-> page, per_page |-> per_page, filters |-> filters,
                         order_by |-> by.order_by, descending |-> by.descending ]
        IN \E order \in Perms(Filtered(RegistrationCodeModel, store, filters)) :
              /\ Idle
              /\ Sorted(order, options)
              /\ LET out == BasePaginate(RegistrationCodeModel, store, options, order)
                 IN /\ store' = out.s
                    /\ last' = Call("base.paginate", options, store.db, out)
              /\ UNCHANGED <<ustore, now, pw, calls, form, worker>>

NextPage ==
    \/ Return
    \/ CreateCall
    \/ DeleteCall
    \/ PaginateCall
    \/ BasePaginateCall

SpecPage == Init /\ [][NextPage]_vars

\* the items one call for page p may return on the table and with the
\* arguments of the last call, when the database answers with order
ItemsOfPage(p, order) ==
    LET a == last.args
        s == CleanSession(last.pre)
    IN IF last.op = "paginate"
       THEN Paginate(Model, s, p, a.per_page, a.filters, order).ret.items
       ELSE BasePaginate(Model, s, [a EXCEPT !.page = p], order).ret.items

\* the answers the database may give to the query of the last call
Answers ==
    { order \in Perms(Filtered(Model, CleanSession(last.pre), last.args.filters)) :
        Sorted(order, last.args) }

\* C11: for page >= 1 and per_page >= 1, paginate returns total = the number of
\* records matching the filters, pages = ceil(total / per_page) and items = the
\* records at positions (page-1)*per_page .. page*per_page-1 of the filtered
\* result: never more than per_page items, none when page > pages, and the
\* items of the pages 1..pages together hold every matching record exactly
\* once.
C11_Paginate ==
    last.op \in {"paginate", "base.paginate"} =>
        LET a == last.args
            matching == { r \in last.pre : MatchesAllPairs(r, a.filters) }
            total == Cardinality(matching)
            offset == (a.page - 1) * a.per_page
        IN /\ last.raised = ""
           /\ store.db = last.pre
           /\ last.ret.total = total
           /\ last.ret.pages * a.per_page >= total
           /\ (last.ret.pages - 1) * a.per_page < total
           /\ Len(last.ret.items) <= a.per_page
           /\ Len(last.ret.items) = Min(a.per_page, IF total > offset THEN total - offset ELSE 0)
           /\ a.page > last.ret.pages => last.ret.items = <<>>
           /\ \A i \in 1..Len(last.ret.items) : last.ret.items[i] \in matching
           /\ \A answer \in [1..last.ret.pages -> Answers] :
                 \A r \in matching :
                    Cardinality({ at \in (1..last.ret.pages) \X (1..a.per_page) :
                                    /\ at[2] <= Len(ItemsOfPage(at[1], answer[at[1]]))
                                    /\ ItemsOfPage(at[1], answer[at[1]])[at[2]] = r }) = 1

(***************************************************************************)
(* Two threads calling create and update on the one module-level session  *)
(* (SpecConc).  A step is one call on the session; nothing orders the     *)
(* steps of the two threads, for the controller takes no lock.            *)
(***************************************************************************)
Threads == {"ui", "worker"}

NoThread == [op |-> "none", pc |-> "idle", id |-> 0, kwargs |-> <<>>, raised |-> ""]

\* the arguments each thread calls create and update with
ThreadCreates ==
    [ ui     |-> { [code |-> "A1", expiration_date |-> 1, user_type |-> "admin"],
                   [expiration_date |-> 1] },
      worker |-> { [code |-> "B2", expiration_date |-> 1, user_type |-> "user"] } ]

ThreadUpdates ==
    [ ui     |-> { [is_used |-> TRUE] },
      worker |-> { [user_type |-> "manager"], [bogus |-> 1] } ]

InitConc ==
    /\ store = CleanSession({})
    /\ ustore = CleanSession({})
    /\ now = 0
    /\ last = NoCall
    /\ pw = NoPassword
    /\ calls = [t \in Threads |-> NoThread]
    /\ form = None
    /\ worker = None

Goes(t, pc, raised) == calls' = [calls EXCEPT ![t].pc = pc, ![t].raised = raised]

\* create: instance = self.model(kwargs); session.add(instance)
CreateAdd(t) ==
    \E kwargs \in ThreadCreates[t] :
        /\ calls[t].pc = "idle"
        /\ Cardinality(store.tx) + Len(store.new) < MaxRows
        /\ store' = SessionAdd(store, kwargs)
        /\ calls' = [calls EXCEPT ![t] = [op |-> "create", pc |-> "added", id |-> 0,
                                         kwargs |-> kwargs, raised |-> ""]]
        /\ UNCHANGED <<ustore, now, last, pw, form, worker>>

\* create: session.commit(); return instance, or IntegrityError
CreateCommit(t) ==
    /\ calls[t].op = "create"
    /\ calls[t].pc = "added"
    /\ LET c == SessionCommit(RegistrationCodeModel, store, now)
       IN /\ store' = c.s
          /\ IF c.ok THEN Goes(t, "finally", "") ELSE Goes(t, "except", "IntegrityError")
    /\ UNCHANGED <<ustore, now, last, pw, form, worker>>

\* update: the test of the fields, then query.update(kwargs), which flushes
\* what is pending (autoflush) before its UPDATE, then the test of rows_updated
UpdateQuery(t) ==
    \E id \in 1..MaxRows, kwargs \in ThreadUpdates[t] :
        LET f == Flush(RegistrationCodeModel, store, now)
            hit == { r \in f.s.tx : r.id = id }
            begun == [op |-> "update", pc |-> "except", id |-> id, kwargs |-> kwargs,
                      raised |-> ""]
        IN /\ calls[t].pc = "idle"
           /\ IF \E field \in DOMAIN kwargs : ~HasAttr(RegistrationCodeModel, field)
              THEN /\ calls' = [calls EXCEPT ![t] = [begun EXCEPT !.raised = "ValueError"]]
                   /\ store' = store
              ELSE IF ~f.ok
              THEN /\ calls' = [calls EXCEPT ![t] = [begun EXCEPT !.raised = "IntegrityError"]]
                   /\ store' = f.s
              ELSE IF hit = {}
              THEN /\ calls' = [calls EXCEPT ![t] = [begun EXCEPT !.raised = "RecordNotFoundError"]]
                   /\ store' = f.s
              ELSE /\ calls' = [calls EXCEPT ![t] = [begun EXCEPT !.pc = "updated"]]
                   /\ store' = [f.s EXCEPT !.tx = (@ \ hit) \cup
                                   { UpdatedRow(RegistrationCodeModel, r, kwargs, now) :
                                       r \in hit }]
           /\ UNCHANGED <<ustore, now, last, pw, form, worker>>

\* update: session.commit()
UpdateCommit(t) ==
    /\ calls[t].op = "update"
    /\ calls[t].pc = "updated"
    /\ LET c == SessionCommit(RegistrationCodeModel, store, now)
       IN /\ store' = c.s
          /\ IF c.ok THEN Goes(t, "fetch", "") ELSE Goes(t, "except", "IntegrityError")
    /\ UNCHANGED <<ustore, now, last, pw, form, worker>>

\* update: return self.get_by_id(id_), which closes the session itself
UpdateFetch(t) ==
    /\ calls[t].pc = "fetch"
    /\ LET g == GetById(RegistrationCodeModel, store, calls[t].id)
       IN /\ store' = g.s
          /\ IF g.raised = "" THEN Goes(t, "finally", "") ELSE Goes(t, "except", g.raised)
    /\ UNCHANGED <<ustore, now, last, pw, form, worker>>

\* the exception that leaves the call for the one its try block raised
Raised(op, raised) ==
    IF raised = "IntegrityError"
    THEN IF op = "create" THEN "RecordAlreadyExistsError" ELSE "SQLAlchemyError"
    ELSE raised

\* an except clause without its session.rollback()
ExceptBlockOwnSession(t) ==
    /\ calls[t].pc = "except"
    /\ Goes(t, "finally", Raised(calls[t].op, calls[t].raised))
    /\ UNCHANGED <<store, ustore, now, last, pw, form, worker>>

\* the except clauses of create and update: session.rollback(); raise
ExceptBlock(t) ==
    /\ calls[t].pc = "except"
    /\ store' = SessionRollback(store)
    /\ Goes(t, "finally", Raised(calls[t].op, calls[t].raised))
    /\ UNCHANGED <<ustore, now, last, pw, form, worker>>

\* finally: session.close()
FinallyBlock(t) ==
    /\ calls[t].pc = "finally"
    /\ store' = SessionClose(store)
    /\ calls' = [calls EXCEPT ![t].pc = "done"]
    /\ UNCHANGED <<ustore, now, last, pw, form, worker>>

\* the caller has the instance or the exception; the thread may call again
ThreadReturn(t) ==
    /\ calls[t].pc = "done"
    /\ calls' = [calls EXCEPT ![t] = NoThread]
    /\ UNCHANGED <<store, ustore, now, last, pw, form, worker>>

NextConc ==
    \E t \in Threads :
        \/ CreateAdd(t)
        \/ CreateCommit(t)
        \/ UpdateQuery(t)
        \/ UpdateCommit(t)
        \/ UpdateFetch(t)
        \/ ExceptBlock(t)
        \/ FinallyBlock(t)
        \/ ThreadReturn(t)

SpecConc == InitConc /\ [][NextConc]_vars

\* the call of thread t has added an instance to the session, or changed a row
\* in its transaction, and has not yet committed: the change is still there
Pending(t) ==
    \/ /\ calls[t].op = "create"
       /\ calls[t].pc = "added"
       /\ \E i \in 1..Len(store.new) : store.new[i] = calls[t].kwargs
    \/ /\ calls[t].op = "update"
       /\ calls[t].pc = "updated"
       /\ \E r \in store.tx \ store.db :
             /\ r.id = calls[t].id
             /\ \A key \in DOMAIN calls[t].kwargs : r[key] = calls[t].kwargs[key]

\* thread u runs the rollback() of its except block or the close() of its
\* finally block
Discards(u) ==
    /\ calls[u].pc \in {"except", "finally"}
    /\ calls'[u].pc # calls[u].pc

\* C12: the controller takes no lock around the one session: whenever a call
\* runs the rollback() or close() of its except / finally block while the
\* other call has a change added to the session and not yet committed, that
\* change is discarded; and such an interleaving is reachable (C12_Witness).
C12_SharedSession ==
    [][ \A t, u \in Threads :
          (t # u /\ Pending(t) /\ Discards(u)) =>
             /\ ~Pending(t)'
             /\ store'.new = <<>>
             /\ store'.tx = store.db ]_vars

\* C12 witness: a create has returned its instance without an exception and
\* no record of its code is stored, the other call having ended in its except
\* block
C12_Witness ==
    \E t, u \in Threads :
        /\ t # u
        /\ calls[t].op = "create"
        /\ calls[t].pc = "done"
        /\ calls[t].raised = ""
        /\ "code" \in DOMAIN calls[t].kwargs
        /\ \A r \in store.db : r.code # calls[t].kwargs.code
        /\ calls[u].pc = "done"
        /\ calls[u].raised # ""

(***************************************************************************)
(* Forms (SpecForm).  FormBase and FormModalBase hold the same _is_valid   *)
(* and _handle_submit; FormModel and FormModelModal override               *)
(* _handle_submit and save through a controller on registration_codes.    *)
(* form.log lists, in order, what the last _handle_submit did: the         *)
(* is_valid() calls, the validators run, the controller calls, the         *)
(* signals emitted.                                                        *)
(***************************************************************************)
ModelForms == {"FormModel", "FormModelModal"}
FormClasses == {"FormBase", "FormModalBase"} \cup ModelForms

\* the class whose _handle_submit super() reaches
BaseOf(cls) == IF cls \in {"FormBase", "FormModel"} THEN "FormBase" ELSE "FormModalBase"

\* self._fields, in the order the fields were added
FieldOrder == <<"code", "expiration_date">>
FieldValues == [code |-> {"A1", "B2"}, expiration_date |-> {1}]
\* the value clear_content() leaves in a field
FieldDefaults == [code |-> "", expiration_date |-> 1]

\* self._validators: each validator passes or raises ValidationError
ValidatorLists ==
    { <<>>, <<"pass">>, <<"ValidationError">>, <<"pass", "ValidationError">>,
      <<"ValidationError", "pass">> }

Event(frame, kind, what, payload) ==
    [frame |-> frame, kind |-> kind, what |-> what, payload |-> payload]

MinOf(S) == CHOOSE x \in S : \A y \in S : x <= y

\* get_data
GetData(f) == [name \in DOMAIN f.fields |-> f.fields[name].value]

\* _is_valid that leaves the loop at the first field that is not valid
IsValidStopsAtFirstInvalid(f, frame) ==
    LET invalid == { i \in 1..Len(FieldOrder) : ~f.fields[FieldOrder[i]].valid }
        seen == IF invalid = {} THEN Len(FieldOrder) ELSE MinOf(invalid)
        failing == { i \in 1..Len(f.validators) : f.validators[i] = "ValidationError" }
        ran == IF invalid # {} THEN 0
               ELSE IF failing = {} THEN Len(f.validators) ELSE MinOf(failing)
    IN [ valid |-> invalid = {} /\ failing = {},
         errors |-> IF invalid = {} /\ failing # {}
                    THEN "__form__" :> <<"ValidationError">> ELSE <<>>,
         log |-> [i \in 1..seen |-> Event(frame, "is_valid", FieldOrder[i], None)]
                 \o [i \in 1..ran |-> Event(frame, "validator", f.validators[i], i)] ]

\* _is_valid: every field's is_valid(), then, when all are valid, the
\* validators up to the first that raises ValidationError
IsValid(f, frame) ==
    LET invalid == { i \in 1..Len(FieldOrder) : ~f.fields[FieldOrder[i]].valid }
        failing == { i \in 1..Len(f.validators) : f.validators[i] = "ValidationError" }
        ran == IF invalid # {} THEN 0
               ELSE IF failing = {} THEN Len(f.validators) ELSE MinOf(failing)
    IN [ valid |-> invalid = {} /\ failing = {},
         errors |-> IF invalid = {} /\ failing # {}
                    THEN "__form__" :> <<"ValidationError">> ELSE <<>>,
         log |-> [i \in 1..Len(FieldOrder) |->
                     Event(frame, "is_valid", FieldOrder[i], None)]
                 \o [i \in 1..ran |-> Event(frame, "validator", f.validators[i], i)] ]

\* FormBase._handle_submit, FormModalBase._handle_submit
HandleSubmit(f, frame) ==
    LET v == IsValid(f, frame)
    IN Append(v.log,
              IF v.valid
              THEN Event(frame, "emit", "submitted", GetData(f))
              ELSE Event(frame, "emit", "validation_failed", v.errors))

\* clear
Clear(f) ==
    [f EXCEPT !.fields = [name \in DOMAIN @ |->
                             [@[name] EXCEPT !.value = FieldDefaults[name]]]]

\* FormModel._handle_submit, FormModelModal._handle_submit: the log, the form
\* and the session it leaves
ModelHandleSubmit(f, s, t) ==
    LET frame == f.cls
        super == HandleSubmit(f, BaseOf(f.cls))
        v == IsValid(f, frame)
        data == GetData(f)
        out == IF f.instance # None
               THEN Update(RegistrationCodeModel, s, f.instance[1], data, t)
               ELSE Create(RegistrationCodeModel, s, data, t)
        called == Event(frame, "controller",
                        IF f.instance # None THEN "update" ELSE "create", out.raised)
    IN IF ~v.valid
       THEN [ log |-> super \o v.log
                      \o <<Event(frame, "emit", "validation_failed", v.errors)>>,
              form |-> f, s |-> s ]
       ELSE IF out.raised = ""
       THEN [ log |-> super \o v.log
                      \o <<called, Event(frame, "emit", "submitted", out.ret)>>,
              form |-> Clear([f EXCEPT !.open = (f.instance = None)]), s |-> out.s ]
       ELSE [ log |-> super \o v.log
                      \o <<called, Event(frame, "emit", "validation_failed",
                                         "__form__" :> <<out.raised>>)>>,
              form |-> f, s |-> out.s ]

NoForm ==
    [ cls |-> "none", instance |-> None, open |-> FALSE, validators |-> <<>>,
      fields |-> [name \in DOMAIN FieldDefaults |->
                     [value |-> FieldDefaults[name], valid |-> FALSE]],
      submit |-> [name \in DOMAIN FieldDefaults |->
                     [value |-> FieldDefaults[name], valid |-> FALSE]],
      log |-> <<>> ]

InitForm ==
    /\ store = CleanSession({})
    /\ ustore = CleanSession({})
    /\ now = 0
    /\ last = NoCall
    /\ pw = NoPassword
    /\ calls = <<>>
    /\ form = NoForm
    /\ worker = None

\* __init__ and add_validator: a form is built and shown; a model form
\* given an instance is filled from it (_populate_from_instance)
OpenForm ==
    \E cls \in FormClasses, validators \in ValidatorLists,
       instance \in {None} \cup { <<r.id>> : r \in store.db } :
       /\ instance # None => cls \in ModelForms
       /\ LET fields ==
                 [name \in DOMAIN FieldDefaults |->
                     IF instance = None
                     THEN [value |-> FieldDefaults[name], valid |-> FALSE]
                     ELSE [value |-> (CHOOSE r \in store.db : r.id = instance[1])[name],
                           valid |-> TRUE]]
          IN form' = [ cls |-> cls, instance |-> instance, open |-> TRUE,
                       validators |-> validators, fields |-> fields,
                       submit |-> fields, log |-> <<>> ]
       /\ UNCHANGED <<store, ustore, now, last, pw, calls, worker>>

\* the user changes a field; valid is what its is_valid() answers from then on
EditField ==
    \E name \in DOMAIN FieldValues, valid \in BOOLEAN :
       \E value \in FieldValues[name] \cup {FieldDefaults[name]} :
          /\ form.open
          /\ LET fields == [form.fields EXCEPT ![name] =
                               [value |-> value, valid |-> valid]]
             IN form' = [form EXCEPT !.fields = fields, !.submit = fields,
                                     !.log = <<>>]
          /\ UNCHANGED <<store, ustore, now, last, pw, calls, worker>>

\* a click on the submit button: _handle_submit of the form's class
SubmitCall ==
    /\ form.open
    /\ (form.cls \in ModelForms /\ form.instance = None)
          => Cardinality(store.db) < MaxRows
    /\ IF form.cls \in ModelForms
       THEN LET r == ModelHandleSubmit(form, store, now)
            IN /\ form' = [r.form EXCEPT !.log = r.log, !.submit = form.fields]
               /\ store' = r.s
       ELSE /\ form' = [form EXCEPT !.log = HandleSubmit(form, form.cls),
                                    !.submit = form.fields]
            /\ store' = store
    /\ UNCHANGED <<ustore, now, last, pw, calls, worker>>

NextForm == OpenForm \/ EditField \/ SubmitCall

SpecForm == InitForm /\ [][NextForm]_vars

\* what the last submit did inside the _handle_submit of one class
EventsOf(frame) == SelectSeq(form.log, LAMBDA e : e.frame = frame)
Emitted(events) == SelectSeq(events, LAMBDA e : e.kind = "emit")
Range(seq) == { seq[i] : i \in DOMAIN seq }

\* the fields and the validators as the submit found them
FieldsValid == \A name \in DOMAIN form.submit : form.submit[name].valid
NoValidatorRaises ==
    \A i \in DOMAIN form.validators : form.validators[i] # "ValidationError"
SubmittedData == [name \in DOMAIN form.submit |-> form.submit[name].value]

\* C13: each call of FormBase._handle_submit and of
\* FormModalBase._handle_submit emits exactly one signal: submitted carrying
\* get_data() when every field's is_valid() is true and no form-level
\* validator raises ValidationError, validation_failed otherwise; the
\* validators run only when all fields are valid, and every field's
\* is_valid() is evaluated on each submit, also after one has failed.
C13_HandleSubmit ==
    \A frame \in {"FormBase", "FormModalBase"} :
       LET events == EventsOf(frame)
           emits == Emitted(events)
       IN events # <<>> =>
             /\ Len(emits) = 1
             /\ emits[1] = events[Len(events)]
             /\ IF FieldsValid /\ NoValidatorRaises
                THEN /\ emits[1].what = "submitted"
                     /\ emits[1].payload = SubmittedData
                ELSE emits[1].what = "validation_failed"
             /\ (\E e \in Range(events) : e.kind = "validator") => FieldsValid
             /\ \A i \in DOMAIN FieldOrder :
                   /\ events[i].kind = "is_valid"
                   /\ events[i].what = FieldOrder[i]

\* a submit of a FormModalBase whose first field is not valid has asked the
\* second field too and has emitted validation_failed
C13_Witness ==
    /\ form.cls = "FormModalBase"
    /\ ~form.submit.code.valid
    /\ Len(form.log) = 3
    /\ form.log[2].kind = "is_valid" /\ form.log[2].what = "expiration_date"
    /\ form.log[3].kind = "emit" /\ form.log[3].what = "validation_failed"

\* the signals of one name the last submit emitted, from any frame
Signals(what) ==
    SelectSeq(form.log, LAMBDA e : e.kind = "emit" /\ e.what = what)

\* C14: in FormModel and FormModelModal submitted is emitted only after the
\* controller's create or update has returned successfully, and at most
\* once per submit; a submit that fails validation emits validation_failed
\* exactly once and calls neither controller.create nor controller.update.
C14_ModelSubmit ==
    (form.cls \in ModelForms /\ form.log # <<>>) =>
       /\ \A i \in DOMAIN form.log :
             (form.log[i].kind = "emit" /\ form.log[i].what = "submitted") =>
                \E j \in 1..(i - 1) :
                   /\ form.log[j].kind = "controller"
                   /\ form.log[j].payload = ""
       /\ Len(Signals("submitted")) <= 1
       /\ ~(FieldsValid /\ NoValidatorRaises) =>
             /\ Len(Signals("validation_failed")) = 1
             /\ \A e \in Range(form.log) : e.kind # "controller"

(***************************************************************************)
(* ProgressWorker (SpecWorker, SpecWorkerFair).  run() executes in the     *)
(* worker thread, one step at a time; stop() is called from the UI thread  *)
(* at any moment.  The worker function is long_task of the module's        *)
(* example (a counted loop that asks is_running() before each iteration),  *)
(* or the same loop without a count, and may raise in one iteration.       *)
(***************************************************************************)
\* iterations of long_task (its total)
MaxSteps == 2
\* times run() is called on one worker
MaxRuns == 2

\* Exception is caught by "except Exception"; SystemExit is a BaseException
\* that is no Exception
Exceptions == {"Exception", "SystemExit"}

WorkerFuncs ==
    { [kind |-> "long_task", at |-> at, exc |-> exc] :
         at \in 1..MaxSteps, exc \in Exceptions }
    \cup { [kind |-> "forever", at |-> 1, exc |-> exc] : exc \in Exceptions }
    \cup { [kind |-> kind, at |-> 0, exc |-> ""] : kind \in {"long_task", "forever"} }

Signal(name, args) == [name |-> name, args |-> args]

\* __init__
NewWorker(func) ==
    [ func |-> func, running |-> TRUE, stopped |-> FALSE, pc |-> "idle",
      i |-> 0, signals |-> <<>>, outcome |-> "", runs |-> 0 ]

InitWorker ==
    /\ store = CleanSession({})
    /\ ustore = CleanSession({})
    /\ now = 0
    /\ last = NoCall
    /\ pw = NoPassword
    /\ calls = <<>>
    /\ form = None
    /\ worker \in { NewWorker(func) : func \in WorkerFuncs }

WorkerGoes(w) ==
    /\ worker' = w
    /\ UNCHANGED <<store, ustore, now, last, pw, calls, form>>

\* stop
Stop ==
    WorkerGoes([worker EXCEPT !.running = FALSE, !.stopped = TRUE])

\* a run() that sets the flag again before it calls the function
StartRunResetsFlag ==
    /\ worker.pc \in {"idle", "done"}
    /\ worker.runs < MaxRuns
    /\ WorkerGoes([worker EXCEPT !.pc = "check", !.i = 0, !.signals = <<>>,
                                 !.outcome = "", !.runs = @ + 1,
                                 !.running = TRUE])

\* run is called (thread.started): try: self.func(...)
StartRun ==
    /\ worker.pc \in {"idle", "done"}
    /\ worker.runs < MaxRuns
    /\ WorkerGoes([worker EXCEPT !.pc = "check", !.i = 0, !.signals = <<>>,
                                 !.outcome = "", !.runs = @ + 1])

\* the function's loop head: "if not is_running(): break"
FuncCheck ==
    /\ worker.pc = "check"
    /\ WorkerGoes([worker EXCEPT !.pc =
          IF ~worker.running
             \/ (worker.func.kind = "long_task" /\ worker.i = MaxSteps)
          THEN "after" ELSE "work"])

\* one iteration: the work, which may raise, then progress_callback and
\* label_callback (long_task)
FuncWork ==
    /\ worker.pc = "work"
    /\ IF worker.func.at = worker.i + 1
       THEN WorkerGoes([worker EXCEPT !.pc = "except", !.outcome = worker.func.exc])
       ELSE IF worker.func.kind = "long_task"
       THEN WorkerGoes([worker EXCEPT
               !.pc = "check", !.i = @ + 1,
               !.signals = @ \o << Signal("progress_changed", <<worker.i + 1, MaxSteps>>),
                                   Signal("label_changed", <<"step">>) >>])
       ELSE WorkerGoes([worker EXCEPT !.pc = "check"])

\* after the loop: label_callback, return
FuncAfter ==
    /\ worker.pc = "after"
    /\ WorkerGoes([worker EXCEPT
          !.pc = "return", !.outcome = "returned",
          !.signals = Append(@, Signal("label_changed", <<"done">>))])

\* run that reports the full bar after it has emitted finished
EmitFinishedThenProgress ==
    /\ worker.pc = "return"
    /\ WorkerGoes([worker EXCEPT
          !.pc = "done",
          !.signals = @ \o << Signal("finished", <<"result">>),
                              Signal("progress_changed", <<MaxSteps, MaxSteps>>) >>])

\* self.finished.emit(result)
EmitFinished ==
    /\ worker.pc = "return"
    /\ WorkerGoes([worker EXCEPT
          !.pc = "done",
          !.signals = Append(@, Signal("finished", <<"result">>))])

\* except Exception as e: self.error.emit(str(e)); any other exception
\* leaves run()
ExceptClause ==
    /\ worker.pc = "except"
    /\ WorkerGoes([worker EXCEPT
          !.pc = "done",
          !.signals = IF worker.outcome = "Exception"
                      THEN Append(@, Signal("error", <<"Exception">>))
                      ELSE @])

\* the steps of the worker thread inside run()
WorkerThread == FuncCheck \/ FuncWork \/ FuncAfter \/ EmitFinished \/ ExceptClause

NextWorker == Stop \/ StartRun \/ WorkerThread

SpecWorker == InitWorker /\ [][NextWorker]_vars

\* the worker thread, once started, is scheduled again and again
SpecWorkerFair == SpecWorker /\ WF_vars(WorkerThread)

InRun == worker.pc \notin {"idle", "done"}

Terminal(sig) == sig.name \in {"finished", "error"}
Terminals == SelectSeq(worker.signals, Terminal)
LastSignal == worker.signals[Len(worker.signals)]

\* run() has emitted finished with the function's result and has ended
FinishedEmitted ==
    /\ worker.pc = "done"
    /\ worker.signals # <<>>
    /\ LastSignal.name = "finished"
    /\ LastSignal.args = <<"result">>

\* C15: after stop() has been called is_running() answers False on every
\* later call, no operation sets the flag back to True; so a worker function
\* that asks is_running() on each iteration and does not raise ends after
\* stop(), and run() then emits finished with the function's result, under
\* fair scheduling of the worker thread.
C15_StopTerminates ==
    /\ [](worker.stopped => ~worker.running)
    /\ (worker.stopped /\ InRun /\ worker.func.at = 0) ~> FinishedEmitted

\* the loop without a count has ended, which it does only when stopped, and
\* run() has emitted finished
C15_Witness ==
    /\ worker.func.kind = "forever"
    /\ worker.stopped
    /\ FinishedEmitted

\* the terminal signal is emitted at most once and nothing follows it
TerminalIsLast ==
    /\ Len(Terminals) <= 1
    /\ Len(Terminals) = 1 => Terminal(LastSignal)

\* C16: each run() of ProgressWorker emits exactly one terminal signal,
\* finished(result) when the worker function returns or error(message) when
\* it raises, never both and never neither, and the terminal signal is the
\* last signal of the run.
C16_OneTerminalSignal ==
    /\ TerminalIsLast
    /\ worker.pc = "done" =>
          /\ Len(Terminals) = 1
          /\ IF worker.outcome = "returned"
             THEN Terminals[1] = Signal("finished", <<"result">>)
             ELSE Terminals[1].name = "error"

\* C16 as the code has it: exactly one terminal signal, finished(result)
\* when the function returns and error(message) when it raises an
\* Exception, and it is the last signal of the run; an exception that is
\* no Exception (SystemExit, KeyboardInterrupt) leaves run() with no
\* terminal signal.
C16_OneTerminalSignalAmended ==
    /\ TerminalIsLast
    /\ worker.pc = "done" =>
          IF worker.outcome = "returned"
          THEN /\ Len(Terminals) = 1
               /\ Terminals[1] = Signal("finished", <<"result">>)
          ELSE IF worker.outcome = "Exception"
          THEN /\ Len(Terminals) = 1
               /\ Terminals[1].name = "error"
          ELSE Terminals = <<>>

\* a run whose function returned after an iteration has ended with finished
\* as its last signal, after progress_changed and label_changed
C16_Witness ==
    /\ worker.pc = "done"
    /\ worker.outcome = "returned"
    /\ worker.i >= 1
    /\ Len(worker.signals) >= 4
    /\ LastSignal.name = "finished"

(***************************************************************************)
(* bulk_update (SpecBulk), in controllers/base_controller.py and in        *)
(* controllers/base.py.                                                    *)
(***************************************************************************)
\* longest list of items handed to bulk_update
MaxItems == 2

\* the item without its 'id' key, and the keys of it that are columns
WithoutId(item) == [key \in DOMAIN item \ {"id"} |-> item[key]]
ColumnsOf(model, item) ==
    [key \in (DOMAIN item \ {"id"}) \cap model.columns |-> item[key]]

\* setattr(instance, key, value) for the keys of the item: the UPDATE the
\* flush sends, none when no column changes its value
SetAttrs(model, r, item, t) ==
    IF \E key \in DOMAIN ColumnsOf(model, item) : r[key] # item[key]
    THEN UpdatedRow(model, r, ColumnsOf(model, item), t)
    ELSE r

\* bulk_update of base_controller.py: the loop over the items left, then
\* the one commit
RECURSIVE BulkUpdate(_, _, _, _)
BulkUpdate(model, s, items, t) ==
    IF items = <<>>
    THEN Outcome("", TRUE, SessionClose(SessionCommit(model, s, t).s))
    ELSE LET item == Head(items)
         IN IF "id" \notin DOMAIN item
            THEN Outcome("ValueError", None, SessionClose(SessionRollback(s)))
            ELSE IF UpdateViolates(model, s.tx, item.id, ColumnsOf(model, item))
            THEN Outcome("IntegrityError", None, SessionClose(SessionRollback(s)))
            ELSE BulkUpdate(model,
                            [s EXCEPT !.tx =
                                { IF r.id = item.id THEN SetAttrs(model, r, item, t)
                                  ELSE r : r \in @ }],
                            Tail(items), t)

\* update of base.py
BaseUpdate(model, s, id, kwargs, t) ==
    LET hit == { r \in s.tx : r.id = id }
        changed == [s EXCEPT !.tx = (@ \ hit) \cup
                                    { UpdatedRow(model, r, kwargs, t) : r \in hit }]
    IN IF \E field \in DOMAIN kwargs : ~HasAttr(model, field)
       THEN Outcome("ValueError", None, SessionClose(SessionRollback(s)))
       ELSE IF UpdateViolates(model, s.tx, id, kwargs)
       THEN Outcome("SQLAlchemyError", None, SessionClose(SessionRollback(s)))
       ELSE IF hit = {}
       THEN Outcome("RecordNotFoundError", None,
                    SessionClose(SessionRollback(changed)))
       ELSE LET c == SessionCommit(model, changed, t)
            IN Outcome("", CHOOSE r \in c.s.tx : r.id = id, SessionClose(c.s))

\* bulk_update of base.py: self.update, which commits, for each item
RECURSIVE BaseBulkUpdate(_, _, _, _)
BaseBulkUpdate(model, s, items, t) ==
    IF items = <<>>
    THEN Outcome("", TRUE, SessionClose(s))
    ELSE LET item == Head(items)
         IN IF "id" \notin DOMAIN item
            THEN Outcome("ValueError", None, SessionClose(s))
            ELSE LET out == BaseUpdate(model, s, item.id, WithoutId(item), t)
                 IN IF out.raised = "SQLAlchemyError"
                    THEN Outcome(out.raised, None,
                                 SessionClose(SessionRollback(out.s)))
                    ELSE IF out.raised # ""
                    THEN Outcome(out.raised, None, SessionClose(out.s))
                    ELSE BaseBulkUpdate(model, out.s, Tail(items), t)

BulkItems ==
    { [id |-> i, is_used |-> TRUE] : i \in Ids }
    \cup { [id |-> i, code |-> "A1"] : i \in Ids }
    \cup { [id |-> 1, bogus |-> 1], [is_used |-> TRUE] }

BulkLists == UNION { [1..n -> BulkItems] : n \in 1..MaxItems }

BulkUpdateCall ==
    \E items \in BulkLists :
        /\ Idle
        /\ LET out == BulkUpdate(RegistrationCodeModel, store, items, now)
           IN /\ store' = out.s
              /\ last' = Call("bulk_update", [items |-> items], store.db, out)
        /\ UNCHANGED <<ustore, now, pw, calls, form, worker>>

BaseBulkUpdateCall ==
    \E items \in BulkLists :
        /\ Idle
        /\ LET out == BaseBulkUpdate(RegistrationCodeModel, store, items, now)
           IN /\ store' = out.s
              /\ last' = Call("base.bulk_update", [items |-> items], store.db, out)
        /\ UNCHANGED <<ustore, now, pw, calls, form, worker>>

NextBulk == Return \/ Tick \/ CreateCall \/ BulkUpdateCall \/ BaseBulkUpdateCall

SpecBulk == Init /\ [][NextBulk]_vars

\* C17: bulk_update(items) is all-or-nothing in both controller
\* implementations: when it raises (an item without an 'id' key, an invalid
\* field, a missing record, a database error) no stored record has been
\* modified by the call, whatever the position of the offending item.
C17_BulkUpdate ==
    (last.op \in {"bulk_update", "base.bulk_update"} /\ last.raised # "") =>
       store.db = last.pre

====
